---- MODULE Spec2Model ----
(***************************************************************************)
(* A model of spectator (src/main.py): the shared bearer-token cache       *)
(* guarded by auth_lock, the RatelimitTracker window, the list of          *)
(* downloaded beatmapsets and the asyncio tasks main() creates.            *)
(*                                                                         *)
(* Scheduling.  asyncio runs every task on one thread; a task runs from    *)
(* one await that really suspends to the next without interruption.  Each  *)
(* action below is one such uninterrupted stretch of one task.  The event  *)
(* loop runs every callback that is ready before it waits for I/O or for   *)
(* a timer, so the clock (Tick) only advances when no task is ready to     *)
(* run; how long an HTTP response takes is arbitrary.                      *)
(*                                                                         *)
(* Time is datetime.now() in whole seconds.  The clock advances in steps   *)
(* of the 20-second padding of is_expired, which is also a divisor of      *)
(* period_length, so every comparison of the code is exercised on both     *)
(* sides of its boundary and exactly on it.                                *)
(***************************************************************************)
EXTENDS Integers, Sequences, FiniteSets, TLC

(***************************************************************************)
(* Bounds of the model.                                                    *)
(***************************************************************************)
\* number of clock steps of a run
MaxTicks == 3
\* longest list of scores a recent-scores response carries
MaxScores == 2
\* OSU_API_V2_RATE_LIMIT.requests_per_period.  Ratelimit is a dataclass and
\* RatelimitTracker reads the capacity from it; the program instantiates it
\* with 500, the model with a capacity that NumAccounts callers can reach.
requests_per_period == 1

(***************************************************************************)
(* Constants of the program.                                               *)
(***************************************************************************)
\* len(hosts.configs): main() creates one task per entry
NumAccounts == 5
\* OSU_API_V2_RATE_LIMIT.period_length, in seconds
period_length == 60
\* the padding of is_expired, in seconds
expiry_padding == 20

\* the step of the clock, in seconds
TickStep == expiry_padding

\* lifetimes (expires_in, seconds) the authorization endpoint may return
ExpiresIn == {10, 40, 70}

Accounts == 1..NumAccounts
\* the beatmapset ids that occur in responses and in the output directory
Ids == {2, 10}

\* Python's None, and a present optional value
None == <<>>
Some(x) == <<x>>

(***************************************************************************)
(* hosts.configs: ratings are whole numbers there (5.0, 13.0, ...).        *)
(***************************************************************************)
configs ==
    <<[username |-> "mrekk", game_mode |-> "osu",
       star_rating |-> [min |-> 5, max |-> 13],
       approach_rate |-> [min |-> 1, max |-> 10]],
      [username |-> "Justice", game_mode |-> "osu",
       star_rating |-> [min |-> 5, max |-> 10],
       approach_rate |-> [min |-> 1, max |-> 10]],
      [username |-> "mlaw", game_mode |-> "osu",
       star_rating |-> [min |-> 7, max |-> 10],
       approach_rate |-> [min |-> 5, max |-> 10]],
      [username |-> "chocomint", game_mode |-> "osu",
       star_rating |-> [min |-> 7, max |-> 10],
       approach_rate |-> [min |-> 5, max |-> 10]],
      [username |-> "im a fancy lad", game_mode |-> "osu",
       star_rating |-> [min |-> 7, max |-> 10],
       approach_rate |-> [min |-> 5, max |-> 10]]>>

VARIABLES
    now,                    \* datetime.now(), seconds
    beatmapsets_dir,        \* the file names in beatmapsets/
    downloaded_beatmapsets, \* the global list of main.py
    authorization,          \* None or Some(Authorization)
    auth_lock,              \* asyncio.Lock: [locked, waiters]
    rate_limit_tracker,     \* None or Some(RatelimitTracker)
    main_pc,                \* where main() is
    resolve_pc,             \* per account: its resolve_user_id task
    pc,                     \* per account: its download_user_maps task
    wake_at,                \* per account: when its asyncio.sleep ends
    late,                   \* the requests sent in the present burst of
                            \* ready callbacks
    tasks,                  \* per account: the list `tasks` of line 204, the
                            \* download_map tasks it created
    recorded,               \* per account: record_request ran in its call
    sent_token,             \* per account: the Authorization read at line 132
    probe,                  \* a call of a pure function: its input and result
    startup_dir,            \* history: beatmapsets/ as main() found it
    no_match,               \* history, per account: should_download
                            \* accepted no score of the response it read
    period,                 \* history: the rate-limit period being
                            \* counted: its start, the tasks that were in
                            \* asyncio.sleep of line 120 when it began and
                            \* the requests sent in it
    refused                 \* history: why a score inside its filter got
                            \* no download task: "startup", its file was
                            \* in beatmapsets/ at startup; "dispatched",
                            \* its id had a download task already

vars == <<now, beatmapsets_dir, downloaded_beatmapsets, authorization,
          auth_lock, rate_limit_tracker, main_pc, resolve_pc, pc, wake_at,
          late, tasks, recorded, sent_token, probe, startup_dir, no_match, refused,
          period>>

(***************************************************************************)
(* Pure functions of main.py.                                              *)
(***************************************************************************)
\* Authorization(api_token, api_token_expiry)
Authorization(token, expiry) ==
    [api_token |-> token, api_token_expiry |-> expiry]

\* is_expired without the padding of line 65
is_expired_NoPadding(a, t) == a.api_token_expiry - t < 0

\* is_expired(authorization), with datetime.now() = t
is_expired(a, t) == a.api_token_expiry - t < expiry_padding

\* RatelimitTracker(rate_limit=OSU_API_V2_RATE_LIMIT, period_start=t)
RatelimitTracker(t) == [period_start |-> t, requests_made_in_period |-> 0]

\* RatelimitTracker.seconds_until_reset, with datetime.now() = t
seconds_until_reset(w, t) == (w.period_start + period_length) - t

\* hit_rate_limit without the test of the elapsed period
hit_rate_limit_NoPeriod(w, t) ==
    w.requests_made_in_period >= requests_per_period

\* RatelimitTracker.hit_rate_limit, with datetime.now() = t
hit_rate_limit(w, t) ==
    IF seconds_until_reset(w, t) <= 0
    THEN FALSE
    ELSE w.requests_made_in_period >= requests_per_period

\* RatelimitTracker.record_request
record_request(w) ==
    [w EXCEPT !.requests_made_in_period = @ + 1]

\* x in a Python list
InList(x, list) == \E k \in DOMAIN list : list[k] = x

\* should_download with the upper approach-rate bound excluded
should_download_Strict(score, config, downloaded) ==
    /\ score.beatmap.mode = config.game_mode
    /\ config.star_rating.min <= score.beatmap.difficulty_rating
    /\ score.beatmap.difficulty_rating <= config.star_rating.max
    /\ config.approach_rate.min <= score.beatmap.ar
    /\ score.beatmap.ar < config.approach_rate.max
    /\ ~InList(score.beatmapset.id, downloaded)

\* should_download(score, config), reading the global list `downloaded`
should_download(score, config, downloaded) ==
    /\ score.beatmap.mode = config.game_mode
    /\ config.star_rating.min <= score.beatmap.difficulty_rating
    /\ score.beatmap.difficulty_rating <= config.star_rating.max
    /\ config.approach_rate.min <= score.beatmap.ar
    /\ score.beatmap.ar <= config.approach_rate.max
    /\ ~InList(score.beatmapset.id, downloaded)

(***************************************************************************)
(* File names.  A name is a sequence of characters; download_map writes    *)
(* f"{beatmapset_id}.osz" and get_currently_downloaded_beatmapsets reads   *)
(* int(path.removesuffix(".osz")).                                         *)
(***************************************************************************)
DigitChars == <<"0", "1", "2", "3", "4", "5", "6", "7", "8", "9">>
OszSuffix == <<".", "o", "s", "z">>

\* str(n) for n >= 0
RECURSIVE StrOfInt(_)
StrOfInt(n) ==
    IF n < 10 THEN <<DigitChars[n + 1]>>
    ELSE StrOfInt(n \div 10) \o <<DigitChars[(n % 10) + 1]>>

\* the file name download_map opens: f"{beatmapset_id}.osz"
OszFileName(id) == StrOfInt(id) \o OszSuffix

\* the file of every beatmapset id of the model
FileOf == [i \in Ids |-> OszFileName(i)]

\* str.removesuffix
removesuffix(str, suffix) ==
    IF /\ Len(str) >= Len(suffix)
       /\ SubSeq(str, Len(str) - Len(suffix) + 1, Len(str)) = suffix
    THEN SubSeq(str, 1, Len(str) - Len(suffix))
    ELSE str

DigitValue(c) == CHOOSE d \in 0..9 : DigitChars[d + 1] = c

\* int(str) for a non-empty string of decimal digits
RECURSIVE IntOfStr(_)
IntOfStr(str) ==
    IF Len(str) = 1 THEN DigitValue(str[1])
    ELSE 10 * IntOfStr(SubSeq(str, 1, Len(str) - 1)) + DigitValue(str[Len(str)])

\* os.listdir: the names of a directory as a list (here in ascending order
\* of the identifiers; the program only reads membership)
RECURSIVE listdir(_)
listdir(dir) ==
    IF dir = {} THEN <<>>
    ELSE LET first == CHOOSE f \in dir : \A g \in dir :
                          IntOfStr(removesuffix(f, OszSuffix))
                              <= IntOfStr(removesuffix(g, OszSuffix))
         IN <<first>> \o listdir(dir \ {first})

\* a startup that does not read the directory
get_currently_downloaded_beatmapsets_Empty(dir) == <<>>

\* get_currently_downloaded_beatmapsets, lines 215-216
get_currently_downloaded_beatmapsets(dir) ==
    LET names == listdir(dir)
    IN [k \in DOMAIN names |-> IntOfStr(removesuffix(names[k], OszSuffix))]

(***************************************************************************)
(* Responses of the scoring API: lists of scores.                          *)
(***************************************************************************)
Score(mode, difficulty_rating, ar, id) ==
    [beatmap |-> [mode |-> mode, difficulty_rating |-> difficulty_rating,
                  ar |-> ar],
     beatmapset |-> [id |-> id]]

\* scores a response may carry: one inside every filter of hosts.configs,
\* one inside the first two filters only
SampleScores == {Score("osu", 8, 9, 10), Score("osu", 6, 4, 2)}

\* the responses of the scoring API: lists of at most MaxScores scores
ScoreLists == UNION {[1..n -> SampleScores] : n \in 0..MaxScores}

\* a lifetime that outlasts the run, as the 86400 seconds of the service do
LongLived == {MaxTicks * TickStep + expiry_padding}

(***************************************************************************)
(* The state after the module is loaded and asyncio.run(main()) is called. *)
(* The output directory holds files an earlier run wrote (or none).        *)
(***************************************************************************)
Init ==
    /\ now = 0
    /\ beatmapsets_dir \in SUBSET {FileOf[i] : i \in Ids}
    /\ downloaded_beatmapsets = <<>>
    /\ authorization = None
    /\ auth_lock = [locked |-> FALSE, waiters |-> <<>>]
    /\ rate_limit_tracker = None
    /\ main_pc = "init"
    /\ resolve_pc = [a \in Accounts |-> "unstarted"]
    /\ pc = [a \in Accounts |-> "unstarted"]
    /\ wake_at = [a \in Accounts |-> 0]
    /\ late = {}
    /\ tasks = [a \in Accounts |-> <<>>]
    /\ recorded = [a \in Accounts |-> FALSE]
    /\ sent_token = [a \in Accounts |-> None]
    /\ probe = None
    /\ startup_dir = beatmapsets_dir
    /\ no_match = [a \in Accounts |-> FALSE]
    /\ refused = {}
    /\ period = None

(***************************************************************************)
(* The event loop.                                                         *)
(***************************************************************************)
Running == main_pc \in {"resolving", "downloading"}

\* the download tasks of the run, each named by its account and its place
\* in the account's list
Downloads == {<<a, n>> : a \in Accounts, n \in 1..MaxScores}
IsCreated(d) == d[2] <= Len(tasks[d[1]])
Download(d) == tasks[d[1]][d[2]]

\* a callback is ready: the loop runs it before it waits for I/O or a timer
ReadyToRun ==
    \/ main_pc = "init"
    \/ /\ main_pc = "resolving"
       /\ \/ \E a \in Accounts : resolve_pc[a] \in {"created", "failed"}
          \/ \A a \in Accounts : resolve_pc[a] = "done"
    \/ /\ main_pc = "downloading"
       /\ \/ \E a \in Accounts : pc[a] \in {"created", "failed"}
          \/ \A a \in Accounts : pc[a] = "done"
          \/ ~auth_lock.locked /\ auth_lock.waiters # <<>>
          \/ \E a \in Accounts : pc[a] = "sleep" /\ wake_at[a] <= now
          \/ \E a \in Accounts : \E n \in DOMAIN tasks[a] :
                tasks[a][n].st \in {"created", "failed"}
          \/ \E a \in Accounts :
                /\ pc[a] = "gather"
                /\ \A n \in DOMAIN tasks[a] : tasks[a][n].st = "done"

\* The requests sent in the present burst of ready callbacks.  A response
\* takes a network round trip, so it cannot arrive before the callbacks that
\* were ready when the request was sent have run.
LateNow == IF ReadyToRun THEN late ELSE {}

\* datetime.now() advances
Tick ==
    /\ Running
    /\ ~ReadyToRun
    /\ now < MaxTicks * TickStep
    /\ now' = now + TickStep
    /\ late' = {}
    /\ UNCHANGED <<period, startup_dir, no_match, refused, probe, beatmapsets_dir, downloaded_beatmapsets,
                   authorization, auth_lock, rate_limit_tracker, main_pc,
                   resolve_pc, pc, wake_at, tasks, recorded, sent_token>>

(***************************************************************************)
(* main(), lines 219-234, and the resolve_user_id tasks.                   *)
(***************************************************************************)
\* lines 220-234: list the directory, create one resolve task per config
MainStart ==
    /\ main_pc = "init"
    /\ downloaded_beatmapsets' =
           get_currently_downloaded_beatmapsets(beatmapsets_dir)
    /\ resolve_pc' = [a \in Accounts |-> "created"]
    /\ main_pc' = "resolving"
    /\ late' = LateNow
    /\ UNCHANGED <<period, refused, startup_dir, no_match, probe, now, beatmapsets_dir, authorization, auth_lock,
                   rate_limit_tracker, pc, wake_at, tasks, recorded, sent_token>>

\* resolve_user_id, lines 143-149: the task's first step sends the GET
ResolveStart(a) ==
    /\ main_pc = "resolving"
    /\ resolve_pc[a] = "created"
    /\ \A b \in Accounts : b < a => resolve_pc[b] # "created"
    /\ resolve_pc' = [resolve_pc EXCEPT ![a] = "pending"]
    /\ late' = LateNow \cup {<<"resolve", a>>}
    /\ UNCHANGED <<period, refused, startup_dir, no_match, probe, now, beatmapsets_dir, downloaded_beatmapsets,
                   authorization, auth_lock, rate_limit_tracker, main_pc, pc,
                   wake_at, tasks, recorded, sent_token>>

\* lines 150-153: a 2xx response
ResolveOk(a) ==
    /\ main_pc = "resolving"
    /\ resolve_pc[a] = "pending"
    /\ <<"resolve", a>> \notin LateNow
    /\ resolve_pc' = [resolve_pc EXCEPT ![a] = "done"]
    /\ late' = LateNow
    /\ UNCHANGED <<period, refused, startup_dir, no_match, probe, now, beatmapsets_dir, downloaded_beatmapsets,
                   authorization, auth_lock, rate_limit_tracker, main_pc, pc,
                   wake_at, tasks, recorded, sent_token>>

\* line 150: raise_for_status on a non-2xx response
ResolveFail(a) ==
    /\ main_pc = "resolving"
    /\ resolve_pc[a] = "pending"
    /\ <<"resolve", a>> \notin LateNow
    /\ resolve_pc' = [resolve_pc EXCEPT ![a] = "failed"]
    /\ late' = LateNow
    /\ UNCHANGED <<period, refused, startup_dir, no_match, probe, now, beatmapsets_dir, downloaded_beatmapsets,
                   authorization, auth_lock, rate_limit_tracker, main_pc, pc,
                   wake_at, tasks, recorded, sent_token>>

\* a main() that goes on as soon as one resolution has returned
MainResolved_FirstDone ==
    /\ main_pc = "resolving"
    /\ \E a \in Accounts : resolve_pc[a] = "done"
    /\ pc' = [a \in Accounts |-> "created"]
    /\ main_pc' = "downloading"
    /\ late' = LateNow
    /\ UNCHANGED <<period, refused, startup_dir, no_match, probe, now, beatmapsets_dir,
                   downloaded_beatmapsets, authorization, auth_lock,
                   rate_limit_tracker, resolve_pc, wake_at, tasks, recorded,
                   sent_token>>

\* lines 229-241: the first gather returns, the download_user_maps tasks
\* are created
MainResolved ==
    /\ main_pc = "resolving"
    /\ \A a \in Accounts : resolve_pc[a] = "done"
    /\ pc' = [a \in Accounts |-> "created"]
    /\ main_pc' = "downloading"
    /\ late' = LateNow
    /\ UNCHANGED <<period, refused, startup_dir, no_match, probe, now, beatmapsets_dir, downloaded_beatmapsets,
                   authorization, auth_lock, rate_limit_tracker, resolve_pc,
                   wake_at, tasks, recorded, sent_token>>

\* a state of a task that has ended
Ended(st) == st \in {"unstarted", "done", "failed", "cancelled"}

\* an asyncio.run that left the pending tasks running when main() raised
CancelAll_KeepRunning ==
    /\ main_pc' = main_pc
    /\ UNCHANGED <<period, resolve_pc, pc, tasks, auth_lock, wake_at>>
    /\ late' = {}

\* asyncio.run: main() raised, every task still pending is cancelled; a
\* task cancelled inside `async with auth_lock` releases the lock
CancelAll ==
    /\ main_pc' = "failed"
    /\ resolve_pc' = [a \in Accounts |->
           IF Ended(resolve_pc[a]) THEN resolve_pc[a] ELSE "cancelled"]
    /\ pc' = [a \in Accounts |->
           IF Ended(pc[a]) THEN pc[a] ELSE "cancelled"]
    /\ tasks' = [a \in Accounts |-> [n \in DOMAIN tasks[a] |->
           IF Ended(tasks[a][n].st) THEN tasks[a][n]
           ELSE [tasks[a][n] EXCEPT !.st = "cancelled"]]]
    /\ auth_lock' = [locked |-> FALSE, waiters |-> <<>>]
    /\ wake_at' = [a \in Accounts |-> 0]
    /\ late' = {}

\* lines 229-234: the first gather raises the exception of a resolve task
MainResolveRaise ==
    /\ main_pc = "resolving"
    /\ \E a \in Accounts : resolve_pc[a] = "failed"
    /\ CancelAll
    /\ UNCHANGED <<period, refused, startup_dir, no_match, probe, now, beatmapsets_dir, downloaded_beatmapsets,
                   authorization, rate_limit_tracker, recorded, sent_token>>

\* lines 236-243: the second gather returns, main returns 0
MainReturn ==
    /\ main_pc = "downloading"
    /\ \A a \in Accounts : pc[a] = "done"
    /\ main_pc' = "done"
    /\ late' = {}
    /\ UNCHANGED <<period, refused, startup_dir, no_match, probe, now, beatmapsets_dir, downloaded_beatmapsets,
                   authorization, auth_lock, rate_limit_tracker, resolve_pc,
                   pc, wake_at, tasks, recorded, sent_token>>

\* lines 236-241: the second gather raises the exception of an account task
MainRaise ==
    /\ main_pc = "downloading"
    /\ \E a \in Accounts : pc[a] = "failed"
    /\ CancelAll
    /\ UNCHANGED <<period, refused, startup_dir, no_match, probe, now, beatmapsets_dir, downloaded_beatmapsets,
                   authorization, rate_limit_tracker, recorded, sent_token>>

(***************************************************************************)
(* make_osu_api_v2_request, lines 86-136, called once by each              *)
(* download_user_maps task through get_user_recent_scores.                 *)
(***************************************************************************)
\* a lock block that does not release: the lock stays held
released_Held(lock) == lock

\* asyncio.Lock.release: the first waiter is woken, it takes the lock when
\* it runs
released(lock) == [lock EXCEPT !.locked = FALSE]

\* the rate limiter without its checks: every call records its request
RateLimitStep_AlwaysRecord(tracker, t) ==
    LET w == IF tracker = None THEN RatelimitTracker(t) ELSE tracker[1]
    IN [branch |-> "fresh", tracker |-> Some(record_request(w)), sleep |-> 0]

\* lines 112-125: the window the call leaves behind and the branch it took
RateLimitStep(tracker, t) ==
    LET w == IF tracker = None THEN RatelimitTracker(t) ELSE tracker[1]
    IN IF hit_rate_limit(w, t)
       THEN [branch |-> "saturated", tracker |-> Some(w),
             sleep |-> seconds_until_reset(w, t)]
       ELSE IF seconds_until_reset(w, t) <= 0
       THEN [branch |-> "stale", tracker |-> None, sleep |-> 0]
       ELSE [branch |-> "fresh", tracker |-> Some(record_request(w)),
             sleep |-> 0]

\* lines 127-133: the header reads authorization.api_token (an
\* AttributeError when the global is None), then the request is sent
IssueRequest(a, auth) ==
    IF auth = None
    THEN /\ pc' = [pc EXCEPT ![a] = "failed"]
         /\ sent_token' = sent_token
         /\ late' = LateNow
    ELSE /\ pc' = [pc EXCEPT ![a] = "request"]
         /\ sent_token' = [sent_token EXCEPT ![a] = auth]
         /\ late' = LateNow \cup {<<"account", a>>}

\* the tasks suspended between the saturation check and their request
Sleepers == {a \in Accounts : pc[a] = "sleep"}

\* a window is created at t: a period begins unless one is running
PeriodBegins(p, created, t) ==
    IF created /\ (p = None \/ t >= p[1].period_start + period_length)
    THEN Some([period_start |-> t, racers |-> Cardinality(Sleepers),
               issued |-> 0])
    ELSE p

\* a request is sent at t
PeriodCounts(p, t) ==
    IF p # None /\ t < p[1].period_start + period_length
    THEN Some([p[1] EXCEPT !.issued = @ + 1])
    ELSE p

\* lines 110-133: the lock is released with the global authorization = auth,
\* then the rate limiter is consulted and the request sent or the wait begun
LeaveLock(a, auth, lock) ==
    LET r == RateLimitStep(rate_limit_tracker, now)
    IN /\ authorization' = auth
       /\ auth_lock' = released(lock)
       /\ rate_limit_tracker' = r.tracker
       /\ IF r.branch = "saturated"
          THEN /\ pc' = [pc EXCEPT ![a] = "sleep"]
               /\ wake_at' = [wake_at EXCEPT ![a] = now + r.sleep]
               /\ recorded' = recorded
               /\ sent_token' = sent_token
               /\ late' = LateNow
               /\ period' = PeriodBegins(period, rate_limit_tracker = None,
                                         now)
          ELSE /\ wake_at' = wake_at
               /\ recorded' = [recorded EXCEPT ![a] = (r.branch = "fresh")]
               /\ IssueRequest(a, auth)
               /\ period' = PeriodCounts(
                      PeriodBegins(period, rate_limit_tracker = None, now),
                      now)

\* the lock block without the check of lines 89-100: every caller exchanges
LockBody_AlwaysExchange(a, lock) ==
    /\ authorization' = None
    /\ auth_lock' = lock
    /\ pc' = [pc EXCEPT ![a] = "exchange"]
    /\ late' = LateNow \cup {<<"account", a>>}
    /\ UNCHANGED <<period, rate_limit_tracker, wake_at, recorded, sent_token>>

\* lines 89-102 and on: the task holds the lock (`lock` is the lock as it
\* acquired it); an expired token is dropped, an absent one is requested
LockBody(a, lock) ==
    LET auth == IF authorization # None /\ is_expired(authorization[1], now)
                THEN None
                ELSE authorization
    IN IF auth = None
       THEN /\ authorization' = None
            /\ auth_lock' = lock
            /\ pc' = [pc EXCEPT ![a] = "exchange"]
            /\ late' = LateNow \cup {<<"account", a>>}
            /\ UNCHANGED <<period, rate_limit_tracker, wake_at, recorded, sent_token>>
       ELSE LeaveLock(a, auth, lock)

\* download_user_maps line 206 to main.py line 88: the first step of the
\* task reaches `async with auth_lock`
StartAccount(a) ==
    /\ main_pc = "downloading"
    /\ pc[a] = "created"
    /\ \A b \in Accounts : b < a => pc[b] # "created"
    /\ IF ~auth_lock.locked /\ auth_lock.waiters = <<>>
       THEN LockBody(a, [auth_lock EXCEPT !.locked = TRUE])
       ELSE /\ auth_lock' = [auth_lock EXCEPT !.waiters = Append(@, a)]
            /\ pc' = [pc EXCEPT ![a] = "wait_lock"]
            /\ late' = LateNow
            /\ UNCHANGED <<period, authorization, rate_limit_tracker, wake_at,
                           recorded, sent_token>>
    /\ UNCHANGED <<refused, startup_dir, no_match, probe, now, beatmapsets_dir, downloaded_beatmapsets, main_pc,
                   resolve_pc, tasks>>

\* line 88: the first waiter of the released lock acquires it
LockWake(a) ==
    /\ main_pc = "downloading"
    /\ pc[a] = "wait_lock"
    /\ ~auth_lock.locked
    /\ auth_lock.waiters # <<>>
    /\ Head(auth_lock.waiters) = a
    /\ LockBody(a, [locked |-> TRUE, waiters |-> Tail(auth_lock.waiters)])
    /\ UNCHANGED <<refused, startup_dir, no_match, probe, now, beatmapsets_dir, downloaded_beatmapsets, main_pc,
                   resolve_pc, tasks>>

\* lines 103-110: the token endpoint answers 2xx with a lifetime expires_in
ExchangeOk(a, expires_in) ==
    /\ main_pc = "downloading"
    /\ pc[a] = "exchange"
    /\ <<"account", a>> \notin LateNow
    /\ LeaveLock(a,
                 Some(Authorization(a, now + expires_in)),
                 auth_lock)
    /\ UNCHANGED <<refused, startup_dir, no_match, probe, now, beatmapsets_dir, downloaded_beatmapsets, main_pc,
                   resolve_pc, tasks>>

\* a failing exchange that kept the lock
ExchangeFail_KeepLock(a) ==
    /\ main_pc = "downloading"
    /\ pc[a] = "exchange"
    /\ <<"account", a>> \notin LateNow
    /\ pc' = [pc EXCEPT ![a] = "failed"]
    /\ late' = LateNow
    /\ UNCHANGED <<period, refused, startup_dir, no_match, probe, now, beatmapsets_dir,
                   downloaded_beatmapsets, authorization, auth_lock,
                   rate_limit_tracker, main_pc, resolve_pc, wake_at, tasks,
                   recorded, sent_token>>

\* line 103: raise_for_status on a non-2xx answer of the token endpoint;
\* `async with` releases the lock as the exception leaves it
ExchangeFail(a) ==
    /\ main_pc = "downloading"
    /\ pc[a] = "exchange"
    /\ <<"account", a>> \notin LateNow
    /\ pc' = [pc EXCEPT ![a] = "failed"]
    /\ auth_lock' = released(auth_lock)
    /\ late' = LateNow
    /\ UNCHANGED <<period, refused, startup_dir, no_match, probe, now, beatmapsets_dir, downloaded_beatmapsets,
                   authorization, rate_limit_tracker, main_pc, resolve_pc,
                   wake_at, tasks, recorded, sent_token>>

\* lines 120-133: asyncio.sleep returns, the window is discarded and the
\* request is sent with the authorization the global holds now
SleepWake(a) ==
    /\ main_pc = "downloading"
    /\ pc[a] = "sleep"
    /\ wake_at[a] <= now
    /\ rate_limit_tracker' = None
    /\ wake_at' = [wake_at EXCEPT ![a] = 0]
    /\ IssueRequest(a, authorization)
    /\ period' = IF authorization = None THEN period
                 ELSE PeriodCounts(period, now)
    /\ UNCHANGED <<refused, startup_dir, no_match, probe, now, beatmapsets_dir, downloaded_beatmapsets,
                   authorization, auth_lock, main_pc, resolve_pc, tasks,
                   recorded>>

(***************************************************************************)
(* download_user_maps, lines 203-212, and the download_map tasks.          *)
(***************************************************************************)
\* the loop body without line 210: the id is not marked as downloaded
LoopBody_NoMark(score, config, st) ==
    IF should_download(score, config, st.downloaded)
    THEN [downloaded |-> st.downloaded,
          tasks |-> Append(st.tasks, score.beatmapset.id)]
    ELSE st

\* a loop body without the test of line 207
LoopBody_NoFilter(score, config, st) ==
    [downloaded |-> Append(st.downloaded, score.beatmapset.id),
     tasks |-> Append(st.tasks, score.beatmapset.id)]

\* lines 207-210, one pass of the loop body.  st.downloaded is the global
\* list, st.tasks the beatmapset ids of the tasks created so far
LoopBody(score, config, st) ==
    IF should_download(score, config, st.downloaded)
    THEN [downloaded |-> Append(st.downloaded, score.beatmapset.id),
          tasks |-> Append(st.tasks, score.beatmapset.id)]
    ELSE st

\* lines 204-210: the loop over the scores, from the n-th on
RECURSIVE ScoreLoop(_, _, _, _)
ScoreLoop(scores, n, config, st) ==
    IF n > Len(scores) THEN st
    ELSE ScoreLoop(scores, n + 1, config, LoopBody(scores[n], config, st))

\* lines 134-136 and 206-212: the scoring API answers 2xx with a list of
\* scores; the loop creates the download tasks; gather of no task returns
\* at once
ScoresOk(a, scores) ==
    /\ main_pc = "downloading"
    /\ pc[a] = "request"
    /\ <<"account", a>> \notin LateNow
    /\ LET st == ScoreLoop(scores, 1, configs[a],
                           [downloaded |-> downloaded_beatmapsets,
                            tasks |-> <<>>])
       IN /\ downloaded_beatmapsets' = st.downloaded
          /\ tasks' = [tasks EXCEPT ![a] = [k \in DOMAIN st.tasks |->
                          [beatmapset_id |-> st.tasks[k], st |-> "created"]]]
          /\ pc' = [pc EXCEPT ![a] =
                       IF st.tasks = <<>> THEN "done" ELSE "gather"]
    /\ LET matching == {n \in DOMAIN scores :
                            should_download(scores[n], configs[a], <<>>)}
           AtStartup(m) ==
               FileOf[scores[m].beatmapset.id] \in startup_dir
           Dispatched(m) ==
               \/ \E b \in Accounts : \E n \in DOMAIN tasks[b] :
                      tasks[b][n].beatmapset_id = scores[m].beatmapset.id
               \/ \E l \in matching :
                      /\ l < m
                      /\ scores[l].beatmapset.id = scores[m].beatmapset.id
       IN refused' = refused
              \cup (IF \E m \in matching : AtStartup(m)
                    THEN {"startup"} ELSE {})
              \cup (IF \E m \in matching : ~AtStartup(m) /\ Dispatched(m)
                    THEN {"dispatched"} ELSE {})
    /\ no_match' = [no_match EXCEPT ![a] =
           \A n \in DOMAIN scores :
               ~should_download(scores[n], configs[a],
                                downloaded_beatmapsets)]
    /\ late' = LateNow
    /\ UNCHANGED <<period, startup_dir, probe, now, beatmapsets_dir,
                   authorization, auth_lock, rate_limit_tracker, main_pc,
                   resolve_pc, wake_at, recorded, sent_token>>

\* line 134: raise_for_status on a non-2xx answer of the scoring API
ScoresFail(a) ==
    /\ main_pc = "downloading"
    /\ pc[a] = "request"
    /\ <<"account", a>> \notin LateNow
    /\ pc' = [pc EXCEPT ![a] = "failed"]
    /\ late' = LateNow
    /\ UNCHANGED <<period, refused, startup_dir, no_match, probe, now, beatmapsets_dir, downloaded_beatmapsets,
                   authorization, auth_lock, rate_limit_tracker, main_pc,
                   resolve_pc, wake_at, tasks, recorded,
                   sent_token>>

\* download_map, lines 157-161: the task's first step sends the GET
DownloadStart(d) ==
    /\ main_pc = "downloading"
    /\ IsCreated(d)
    /\ Download(d).st = "created"
    /\ \A n \in 1..(d[2] - 1) : tasks[d[1]][n].st # "created"
    /\ tasks' = [tasks EXCEPT ![d[1]][d[2]].st = "pending"]
    /\ late' = LateNow \cup {<<"download", d>>}
    /\ UNCHANGED <<period, refused, startup_dir, no_match, probe, now, beatmapsets_dir,
                   downloaded_beatmapsets, authorization, auth_lock,
                   rate_limit_tracker, main_pc, resolve_pc, pc, wake_at,
                   recorded, sent_token>>

\* lines 162-166: the mirror answers 2xx, the file is written
DownloadOk(d) ==
    /\ main_pc = "downloading"
    /\ IsCreated(d)
    /\ Download(d).st = "pending"
    /\ <<"download", d>> \notin LateNow
    /\ tasks' = [tasks EXCEPT ![d[1]][d[2]].st = "done"]
    /\ beatmapsets_dir' =
           beatmapsets_dir \cup {FileOf[Download(d).beatmapset_id]}
    /\ late' = LateNow
    /\ UNCHANGED <<period, refused, startup_dir, no_match, probe, now, downloaded_beatmapsets,
                   authorization, auth_lock, rate_limit_tracker, main_pc,
                   resolve_pc, pc, wake_at, recorded, sent_token>>

\* a failing download that takes its id out of the downloaded list
DownloadFail_Unmark(d) ==
    /\ main_pc = "downloading"
    /\ IsCreated(d)
    /\ Download(d).st = "pending"
    /\ <<"download", d>> \notin LateNow
    /\ tasks' = [tasks EXCEPT ![d[1]][d[2]].st = "failed"]
    /\ downloaded_beatmapsets' =
           SelectSeq(downloaded_beatmapsets,
                     LAMBDA x : x # Download(d).beatmapset_id)
    /\ late' = LateNow
    /\ UNCHANGED <<period, refused, startup_dir, no_match, probe, now, beatmapsets_dir,
                   authorization, auth_lock,
                   rate_limit_tracker, main_pc, resolve_pc, pc, wake_at,
                   recorded, sent_token>>

\* line 162: raise_for_status on a non-2xx answer of the mirror
DownloadFail(d) ==
    /\ main_pc = "downloading"
    /\ IsCreated(d)
    /\ Download(d).st = "pending"
    /\ <<"download", d>> \notin LateNow
    /\ tasks' = [tasks EXCEPT ![d[1]][d[2]].st = "failed"]
    /\ late' = LateNow
    /\ UNCHANGED <<period, refused, startup_dir, no_match, probe, now, beatmapsets_dir,
                   downloaded_beatmapsets, authorization, auth_lock,
                   rate_limit_tracker, main_pc, resolve_pc, pc, wake_at,
                   recorded, sent_token>>

\* line 212: every download of the account is done, the task returns
GatherReturn(a) ==
    /\ main_pc = "downloading"
    /\ pc[a] = "gather"
    /\ \A n \in DOMAIN tasks[a] : tasks[a][n].st = "done"
    /\ pc' = [pc EXCEPT ![a] = "done"]
    /\ late' = LateNow
    /\ UNCHANGED <<period, refused, startup_dir, no_match, probe, now, beatmapsets_dir, downloaded_beatmapsets,
                   authorization, auth_lock, rate_limit_tracker, main_pc,
                   resolve_pc, wake_at, tasks, recorded,
                   sent_token>>

\* line 212: gather raises the exception of the first download that failed
GatherRaise(a) ==
    /\ main_pc = "downloading"
    /\ pc[a] = "gather"
    /\ \E n \in DOMAIN tasks[a] : tasks[a][n].st = "failed"
    /\ pc' = [pc EXCEPT ![a] = "failed"]
    /\ late' = LateNow
    /\ UNCHANGED <<period, refused, startup_dir, no_match, probe, now, beatmapsets_dir, downloaded_beatmapsets,
                   authorization, auth_lock, rate_limit_tracker, main_pc,
                   resolve_pc, wake_at, tasks, recorded,
                   sent_token>>

\* the steps of main(), of the resolve_user_id tasks and of the clock
MainSteps ==
    \/ Tick
    \/ MainStart
    \/ \E a \in Accounts : ResolveStart(a)
    \/ \E a \in Accounts : ResolveOk(a)
    \/ MainResolved
    \/ MainReturn
    \/ MainRaise

\* the steps of make_osu_api_v2_request that read no answer
GatewaySteps ==
    \/ \E a \in Accounts : StartAccount(a)
    \/ \E a \in Accounts : LockWake(a)
    \/ \E a \in Accounts : SleepWake(a)

\* a non-2xx answer of osu.ppy.sh: user resolution, token endpoint, scoring
\* API
UpstreamFailures ==
    \/ \E a \in Accounts : ResolveFail(a)
    \/ MainResolveRaise
    \/ \E a \in Accounts : ExchangeFail(a)
    \/ \E a \in Accounts : ScoresFail(a)

\* the steps of the download_map tasks and of the gather of line 212
DownloadSteps ==
    \/ \E d \in Downloads : DownloadStart(d)
    \/ \E d \in Downloads : DownloadOk(d)
    \/ \E d \in Downloads : DownloadFail(d)
    \/ \E a \in Accounts : GatherReturn(a)
    \/ \E a \in Accounts : GatherRaise(a)

\* the program with every answer of the model
Next ==
    \/ MainSteps
    \/ GatewaySteps
    \/ UpstreamFailures
    \/ DownloadSteps
    \/ \E a \in Accounts, e \in ExpiresIn : ExchangeOk(a, e)
    \/ \E a \in Accounts, scores \in ScoreLists : ScoresOk(a, scores)

Spec == Init /\ [][Next]_vars

(***************************************************************************)
(* The product of every token lifetime, every list of scores and every     *)
(* failure is too large to enumerate for five accounts, so the program is  *)
(* checked in two environments.                                            *)
(*                                                                         *)
(* SpecGateway: osu.ppy.sh may fail every request and the token endpoint   *)
(* returns every lifetime of ExpiresIn; the output directory is empty and  *)
(* no account has a recent score, so no download task is created.          *)
(*                                                                         *)
(* SpecDownloads: osu.ppy.sh answers every request and the token outlasts  *)
(* the run; the directory holds any of the files, the responses carry      *)
(* every list of scores and the mirror may fail every download.            *)
(*                                                                         *)
(* SpecAllOk: SpecGateway with every request answered 2xx.                 *)
(***************************************************************************)
InitGateway == Init /\ beatmapsets_dir = {}

NextGateway ==
    \/ MainSteps
    \/ GatewaySteps
    \/ UpstreamFailures
    \/ \E a \in Accounts, e \in ExpiresIn : ExchangeOk(a, e)
    \/ \E a \in Accounts : ScoresOk(a, <<>>)

SpecGateway == InitGateway /\ [][NextGateway]_vars

NextAllOk ==
    \/ MainSteps
    \/ GatewaySteps
    \/ \E a \in Accounts, e \in ExpiresIn : ExchangeOk(a, e)
    \/ \E a \in Accounts : ScoresOk(a, <<>>)

SpecAllOk == InitGateway /\ [][NextAllOk]_vars

NextDownloads ==
    \/ MainSteps
    \/ GatewaySteps
    \/ DownloadSteps
    \/ \E a \in Accounts, e \in LongLived : ExchangeOk(a, e)
    \/ \E a \in Accounts, scores \in ScoreLists : ScoresOk(a, scores)

SpecDownloads == Init /\ [][NextDownloads]_vars

(***************************************************************************)
(* The pure functions on their own: a call is drawn with its input, then   *)
(* the function is applied as the program applies it.                      *)
(***************************************************************************)
\* ratings on both sides of, and on, every bound of hosts.configs
ProbeStars == {4, 5, 6, 7, 10, 11, 13, 14}
ProbeRates == {0, 1, 4, 5, 10, 11}
ProbeScores ==
    {Score(m, d, r, i) :
        m \in {"osu", "taiko"}, d \in ProbeStars, r \in ProbeRates, i \in Ids}
ProbeConfigs == {configs[k] : k \in DOMAIN configs}
ProbeLists == {<<>>, <<2>>, <<10>>, <<2, 10>>, <<10, 2>>}

\* windows and instants on both sides of, and on, the end of the period
ProbeTimes == {10 * k : k \in 0..(2 * (MaxTicks + 2))}
ProbeTrackers ==
    {[RatelimitTracker(t) EXCEPT !.requests_made_in_period = n] :
        t \in {0, TickStep}, n \in 0..(requests_per_period + 1)}

ProbeCalls ==
    {[fn |-> "should_download", args |-> <<sc, cf, ls>>, out |-> None] :
        sc \in ProbeScores, cf \in ProbeConfigs, ls \in ProbeLists}
    \cup
    {[fn |-> "hit_rate_limit", args |-> <<w, t>>, out |-> None] :
        w \in ProbeTrackers, t \in ProbeTimes}

InitPure ==
    /\ now = 0
    /\ beatmapsets_dir = {}
    /\ downloaded_beatmapsets = <<>>
    /\ authorization = None
    /\ auth_lock = [locked |-> FALSE, waiters |-> <<>>]
    /\ rate_limit_tracker = None
    /\ main_pc = "init"
    /\ resolve_pc = [a \in Accounts |-> "unstarted"]
    /\ pc = [a \in Accounts |-> "unstarted"]
    /\ wake_at = [a \in Accounts |-> 0]
    /\ late = {}
    /\ tasks = [a \in Accounts |-> <<>>]
    /\ recorded = [a \in Accounts |-> FALSE]
    /\ sent_token = [a \in Accounts |-> None]
    /\ probe \in {Some(c) : c \in ProbeCalls}
    /\ startup_dir = beatmapsets_dir
    /\ no_match = [a \in Accounts |-> FALSE]
    /\ refused = {}
    /\ period = None

\* should_download(score, config) with the global list as drawn
CallShouldDownload ==
    /\ probe # None
    /\ probe[1].fn = "should_download"
    /\ probe[1].out = None
    /\ probe' = Some([probe[1] EXCEPT !.out =
           Some(should_download(probe[1].args[1], probe[1].args[2],
                                probe[1].args[3]))])
    /\ UNCHANGED <<period, now, beatmapsets_dir, downloaded_beatmapsets,
                   authorization, auth_lock, rate_limit_tracker, main_pc,
                   resolve_pc, pc, wake_at, late, tasks, recorded, sent_token,
                   startup_dir, no_match, refused>>

\* tracker.hit_rate_limit() at the instant drawn
CallHitRateLimit ==
    /\ probe # None
    /\ probe[1].fn = "hit_rate_limit"
    /\ probe[1].out = None
    /\ probe' = Some([probe[1] EXCEPT !.out =
           Some(hit_rate_limit(probe[1].args[1], probe[1].args[2]))])
    /\ UNCHANGED <<period, now, beatmapsets_dir, downloaded_beatmapsets,
                   authorization, auth_lock, rate_limit_tracker, main_pc,
                   resolve_pc, pc, wake_at, late, tasks, recorded, sent_token,
                   startup_dir, no_match, refused>>

NextPure == CallShouldDownload \/ CallHitRateLimit

SpecPure == InitPure /\ [][NextPure]_vars

\* the result of a finished call of fn, as a set: {} while there is none
Returned(fn) ==
    IF probe # None /\ probe[1].fn = fn /\ probe[1].out # None
    THEN {probe[1]}
    ELSE {}

\* C8: hit_rate_limit() is true exactly when the period has not elapsed
\* (seconds_until_reset() > 0) and the count has reached the capacity; on
\* a window just created (count zero, period starting now) it is false.
C8_HitRateLimitIff ==
    \A c \in Returned("hit_rate_limit") :
        LET w == c.args[1]
            t == c.args[2]
        IN /\ c.out[1] = TRUE <=>
                  /\ (w.period_start + period_length) - t > 0
                  /\ w.requests_made_in_period >= requests_per_period
           /\ (w = RatelimitTracker(t)) => c.out[1] = FALSE

\* a saturated window was asked in its last seconds and answered true
C8_Witness ==
    \E c \in Returned("hit_rate_limit") :
        /\ c.out[1] = TRUE
        /\ (c.args[1].period_start + period_length) - c.args[2] = 10

\* C10: should_download is true exactly when the mode is the configured
\* one, both ratings lie in their inclusive ranges and the beatmapset id
\* is not in the downloaded list.
C10_ShouldDownloadIff ==
    \A c \in Returned("should_download") :
        LET score == c.args[1]
            config == c.args[2]
            ids == {c.args[3][k] : k \in DOMAIN c.args[3]}
        IN c.out[1] = TRUE <=>
               /\ score.beatmap.mode = config.game_mode
               /\ score.beatmap.difficulty_rating
                      \in config.star_rating.min..config.star_rating.max
               /\ score.beatmap.ar
                      \in config.approach_rate.min..config.approach_rate.max
               /\ score.beatmapset.id \notin ids

\* a score on the lower star bound and the upper approach-rate bound of its
\* filter was accepted
C10_Witness ==
    \E c \in Returned("should_download") :
        /\ c.out[1] = TRUE
        /\ c.args[1].beatmap.difficulty_rating = c.args[2].star_rating.min
        /\ c.args[1].beatmap.ar = c.args[2].approach_rate.max

(***************************************************************************)
(* The token cache, checked under SpecGateway.                             *)
(***************************************************************************)
\* the accounts whose token exchange is in flight
Exchanging == {a \in Accounts : pc[a] = "exchange"}
\* the step takes account a into the lock block
Acquires(a) ==
    /\ pc[a] \in {"created", "wait_lock"}
    /\ pc'[a] \in {"exchange", "request", "sleep", "failed"}
\* the step takes account a out of the lock block with a token
Returns(a) == pc'[a] \in {"request", "sleep"}
\* the token the global holds is present and not expired
Usable(auth, t) == auth # None /\ ~is_expired(auth[1], t)

\* C1: while one caller's token exchange is in flight no other caller starts
\* one (at most one exchange is in flight at any time), a caller starts an
\* exchange only when the shared token is absent or expired, and a caller
\* that acquires auth_lock while the stored token is unexpired leaves the
\* block with that token, unchanged.
C1_SingleExchange ==
    /\ [](Cardinality(Exchanging) <= 1)
    /\ [][\A a \in Accounts :
             /\ (Acquires(a) /\ pc'[a] = "exchange")
                    => ~Usable(authorization, now)
             /\ (Acquires(a) /\ Usable(authorization, now))
                    => /\ Returns(a)
                       /\ authorization' = authorization
                       /\ pc'[a] = "request"
                              => sent_token'[a] = authorization]_vars

\* a caller sent its request with the token another caller exchanged
C1_Witness ==
    \E a, b \in Accounts :
        /\ a # b
        /\ pc[b] = "request"
        /\ sent_token[b] # None
        /\ sent_token[b][1].api_token = a

\* C2 as stated: every step that leaves the lock block, with a cached or a
\* freshly exchanged token, leaves a token that expires expiry_padding
\* seconds or more after the moment of return.
C2_NeverReturnsExpiring ==
    [][\A a \in Accounts :
          (pc[a] \in {"created", "wait_lock", "exchange"} /\ Returns(a))
              => /\ authorization' # None
                 /\ authorization'[1].api_token_expiry - now'
                        >= expiry_padding]_vars

\* C2: a cached token is returned only when it expires expiry_padding
\* seconds or more after the moment of return; a freshly exchanged token is
\* returned unchecked with the lifetime the endpoint gave it, so it expires
\* expiry_padding seconds or more ahead exactly when expires_in is at least
\* expiry_padding.
C2_CachedNeverExpiring ==
    [][\A a \in Accounts :
          /\ (Acquires(a) /\ Returns(a))
                 => /\ authorization' # None
                    /\ authorization'[1].api_token_expiry - now'
                           >= expiry_padding
          /\ (pc[a] = "exchange" /\ Returns(a))
                 => /\ authorization' # None
                    /\ authorization'[1].api_token = a
                    /\ authorization'[1].api_token_expiry - now'
                           \in ExpiresIn]_vars

\* a freshly exchanged token was returned with 10 seconds left, and the
\* next caller found it expired and exchanges again
C2_Witness ==
    \E a, b \in Accounts :
        /\ a # b
        /\ pc[a] = "request"
        /\ sent_token[a] # None
        /\ sent_token[a][1].api_token = a
        /\ sent_token[a][1].api_token_expiry - now < expiry_padding
        /\ pc[b] = "exchange"

\* C4 as stated: every scoring-API request that has been sent was recorded
\* against the window in force before it was sent.
C4_EveryRequestRecorded ==
    \A a \in Accounts : sent_token[a] # None => recorded[a]

\* C5 as stated: the requests sent within one rate-limit period exceed
\* requests_per_period by at most the number of tasks that were racing when
\* the period began, that is, that had passed the saturation check and had
\* not sent their request yet.
C5_OvershootBounded ==
    period # None =>
        period[1].issued - requests_per_period <= period[1].racers

\* C6: in a run whose first token exchange fails (account 1, the first task
\* to reach auth_lock, fails without having sent a request), no task has
\* sent a scoring-API request, at any time of the run.
C6_NoRequestAfterFailedFirstExchange ==
    (pc[1] = "failed" /\ sent_token[1] = None)
        => \A a \in Accounts : sent_token[a] = None

\* the first exchange failed and the run was aborted: the siblings were
\* cancelled before any of them had a token
C6_Witness ==
    /\ main_pc = "failed"
    /\ pc[1] = "failed"
    /\ sent_token[1] = None
    /\ \E b \in Accounts : pc[b] = "cancelled" /\ recorded[b] = FALSE
    /\ \A a \in Accounts : sent_token[a] = None

\* C7: the step in which a token exchange fails ends the calling task with
\* the failure, leaves the shared authorization absent and auth_lock
\* released; and whenever a caller acquires the lock while authorization is
\* absent it starts a token exchange.
C7_FailedExchange ==
    [][\A a \in Accounts :
          /\ (pc[a] = "exchange" /\ pc'[a] = "failed")
                 => /\ authorization' = None
                    /\ authorization = None
                    /\ ~auth_lock'.locked
                    /\ \A b \in Accounts : pc'[b] # "exchange"
          /\ (Acquires(a) /\ authorization = None)
                 => pc'[a] = "exchange" /\ auth_lock'.locked]_vars

\* an exchange failed and the next caller of the lock is exchanging
C7_Witness ==
    \E a, b \in Accounts :
        /\ pc[a] = "failed"
        /\ sent_token[a] = None
        /\ pc[b] = "exchange"
        /\ authorization = None
        /\ auth_lock.locked

(***************************************************************************)
(* The downloads, checked under SpecDownloads.                             *)
(***************************************************************************)
\* the download_map tasks created for beatmapset id i
TasksFor(i) ==
    {d \in Downloads : IsCreated(d) /\ Download(d).beatmapset_id = i}
\* the ids whose file was in beatmapsets/ at startup
AtStartup == {i \in Ids : FileOf[i] \in startup_dir}
\* a request or a task of the run has been started
NetworkUsed ==
    \/ \E a \in Accounts : resolve_pc[a] \notin {"unstarted", "created"}
    \/ \E a \in Accounts : pc[a] \notin {"unstarted", "created"}
    \/ \E a \in Accounts : tasks[a] # <<>>

\* C3: for every beatmapset id that was not downloaded at startup, at most
\* one download_map task is created over the run, and exactly one once a
\* score inside a filter has named the id (the id is then in the
\* downloaded list), whichever accounts and scores name it again.
C3_OneDownloadPerId ==
    \A i \in Ids \ AtStartup :
        /\ Cardinality(TasksFor(i)) <= 1
        /\ InList(i, downloaded_beatmapsets)
               <=> Cardinality(TasksFor(i)) = 1

\* a second score inside its filter named an id that had its download task
C3_Witness ==
    /\ "dispatched" \in refused
    /\ \E i \in Ids \ AtStartup : Cardinality(TasksFor(i)) = 1

\* C9: every id whose file is in the output directory at startup is in the
\* downloaded list from the moment main() has listed the directory, which
\* is before any request is sent, and no download_map task is ever created
\* for it.
C9_StartupIdsDownloaded ==
    /\ main_pc = "init" => ~NetworkUsed
    /\ main_pc # "init" =>
           \A i \in AtStartup :
               /\ InList(i, downloaded_beatmapsets)
               /\ TasksFor(i) = {}

\* a score inside its filter named an id of the startup directory: it got
\* no download task, while the other id got one
C9_Witness ==
    /\ "startup" \in refused
    /\ AtStartup = {10}
    /\ TasksFor(10) = {}
    /\ TasksFor(2) # {}

\* the step creates a download_map task for id i
Dispatches(i) ==
    \E d \in Downloads :
        /\ ~IsCreated(d)
        /\ d[2] <= Len(tasks'[d[1]])
        /\ tasks'[d[1]][d[2]].beatmapset_id = i

\* C17: the downloaded list is only appended to: every id in it stays in it
\* in every later state, also when its download fails, and once main() has
\* listed the directory an id enters it only in a step that creates a
\* download_map task for that id.
C17_DownloadedOnlyGrows ==
    [][/\ Len(downloaded_beatmapsets) <= Len(downloaded_beatmapsets')
       /\ SubSeq(downloaded_beatmapsets', 1, Len(downloaded_beatmapsets))
              = downloaded_beatmapsets
       /\ main_pc # "init" =>
              \A k \in DOMAIN downloaded_beatmapsets' :
                  k > Len(downloaded_beatmapsets)
                      => Dispatches(downloaded_beatmapsets'[k])]_vars

\* the list holds an id of the startup listing and an id marked at dispatch
\* whose download has failed
C17_Witness ==
    /\ AtStartup # {}
    /\ \A i \in AtStartup : InList(i, downloaded_beatmapsets)
    /\ \E d \in Downloads :
           /\ IsCreated(d)
           /\ Download(d).st = "failed"
           /\ Download(d).beatmapset_id \notin AtStartup
           /\ InList(Download(d).beatmapset_id, downloaded_beatmapsets)

(***************************************************************************)
(* The phases of main(), checked under SpecGateway.                        *)
(***************************************************************************)
\* no account has begun its score-fetch/download phase: no task has run,
\* no token was requested or stored, no window, no request, no download
NoFetchBegun ==
    /\ \A a \in Accounts : pc[a] \in {"unstarted", "created"}
    /\ \A a \in Accounts : sent_token[a] = None /\ tasks[a] = <<>>
    /\ authorization = None
    /\ ~auth_lock.locked
    /\ rate_limit_tracker = None

\* C11: while a resolve_user_id call is outstanding no account has begun
\* its score-fetch/download phase (no token exchange, no scoring-API
\* request, no download), and once a resolution has failed no
\* download_user_maps task is even created.
C11_ResolutionFirst ==
    /\ (\E a \in Accounts : resolve_pc[a] \in {"created", "pending"})
           => NoFetchBegun
    /\ (\E a \in Accounts : resolve_pc[a] = "failed")
           => /\ NoFetchBegun
              /\ \A a \in Accounts : pc[a] = "unstarted"

\* a resolution failed while others had returned or were outstanding, and
\* the run was aborted with no fetch begun
C11_Witness ==
    /\ main_pc = "failed"
    /\ \E a, b, c \in Accounts :
           /\ resolve_pc[a] = "failed"
           /\ resolve_pc[b] = "done"
           /\ resolve_pc[c] = "cancelled"
    /\ NoFetchBegun

(***************************************************************************)
(* The accounts' loops, checked under SpecDownloads.                       *)
(***************************************************************************)
\* C12: when should_download accepts no score of the response an account
\* reads (the list is empty or every score is rejected), the step creates
\* no download_map task, leaves the downloaded list unchanged and the
\* account's download_user_maps task returns without error; the account has
\* no download task afterwards either.
C12_ZeroMatchCleanReturn ==
    /\ [](\A a \in Accounts : no_match[a] => tasks[a] = <<>>)
    /\ [][\A a \in Accounts :
             (pc[a] = "request" /\ no_match'[a])
                 => /\ tasks' = tasks
                    /\ downloaded_beatmapsets' = downloaded_beatmapsets
                    /\ pc'[a] = "done"]_vars

\* an account read a response without a matching score and returned, while
\* another account's response made it create a download task
C12_Witness ==
    \E a, b \in Accounts :
        /\ no_match[a]
        /\ pc[a] = "done"
        /\ tasks[a] = <<>>
        /\ tasks[b] # <<>>

(***************************************************************************)
(* The rate-limit window under concurrent calls, checked under SpecGateway.*)
(***************************************************************************)
\* record_request is applied in this step: the count of the window the step
\* leaves behind is above the count it found (0 for a window it created)
RecordApplied ==
    /\ rate_limit_tracker' # None
    /\ rate_limit_tracker'[1].requests_made_in_period >
           (IF rate_limit_tracker = None
            THEN 0
            ELSE rate_limit_tracker[1].requests_made_in_period)

\* C14: the count of the window never exceeds requests_per_period, and
\* record_request is only applied to a window whose period is still running.
C14_CountWithinCapacity ==
    /\ [](rate_limit_tracker # None
              => rate_limit_tracker[1].requests_made_in_period
                     <= requests_per_period)
    /\ [][RecordApplied
              => now < rate_limit_tracker'[1].period_start + period_length]_vars

\* the window is full, one call recorded its request in it and others wait
\* on it, and another call sent its request without recording it
C14_Witness ==
    /\ rate_limit_tracker # None
    /\ rate_limit_tracker[1].requests_made_in_period = requests_per_period
    /\ now >= rate_limit_tracker[1].period_start
    /\ Sleepers # {}
    /\ \E a, b \in Accounts :
           /\ recorded[a]
           /\ pc[b] \in {"request", "done"} /\ ~recorded[b]

\* lines 119-120: the call that meets a saturated window sleeps until the
\* end of the period of that window, and is not resumed before
WaitsOutObservedPeriod(a) ==
    /\ (pc[a] # "sleep" /\ pc'[a] = "sleep")
           => /\ rate_limit_tracker' # None
              /\ hit_rate_limit(rate_limit_tracker'[1], now)
              /\ wake_at'[a] =
                     rate_limit_tracker'[1].period_start + period_length
    /\ (pc[a] = "sleep" /\ pc'[a] \notin {"sleep", "cancelled"})
           => now >= wake_at[a]

\* lines 121-133: the resumed call sends its request in the same step, whatever
\* window the other calls have left in the meantime
RequestAfterWait(a) ==
    (pc[a] = "sleep" /\ pc'[a] \notin {"sleep", "cancelled"})
        => /\ pc'[a] = "request"
           /\ sent_token'[a] # None
           /\ <<"account", a>> \in late'

\* C15 as stated: a call that observes the window saturated sends no
\* request before the period of that window has elapsed, and after the wait
\* it goes on to the request exactly once, without a second check.
C15_WaitThenRequest ==
    [][\A a \in Accounts :
           WaitsOutObservedPeriod(a) /\ RequestAfterWait(a)]_vars

\* the count of the window, 0 when there is none
CountOf(tracker) ==
    IF tracker = None THEN 0 ELSE tracker[1].requests_made_in_period

\* C16: the token exchange is outside the rate limiter. The lock is held
\* only by a call whose exchange is in flight, never by one that sleeps on a
\* saturated window or awaits its scoring request; a call that finds no
\* usable token sends its exchange in the step in which it takes the lock,
\* whatever the window; sending the exchange and its failure leave the
\* window as it is, and the call that leaves the lock block after an
\* exchange records one request at most.
C16_RefreshNotRateLimited ==
    /\ [](auth_lock.locked => Cardinality(Exchanging) = 1)
    /\ [][\A a \in Accounts :
             /\ (Acquires(a) /\ ~Usable(authorization, now))
                    => pc'[a] = "exchange"
             /\ (pc[a] # "exchange" /\ pc'[a] = "exchange")
                    => rate_limit_tracker' = rate_limit_tracker
             /\ (pc[a] = "exchange" /\ pc'[a] = "failed")
                    => rate_limit_tracker' = rate_limit_tracker
             /\ (pc[a] = "exchange" /\ Returns(a))
                    => CountOf(rate_limit_tracker')
                           <= CountOf(rate_limit_tracker) + 1]_vars

\* one call sleeps on a saturated window while another call, which took the
\* lock during that wait, has its token exchange in flight
C16_Witness ==
    /\ rate_limit_tracker # None
    /\ hit_rate_limit(rate_limit_tracker[1], now)
    /\ auth_lock.locked
    /\ \E a, b \in Accounts :
           /\ pc[a] = "sleep" /\ wake_at[a] > now
           /\ pc[b] = "exchange"

(***************************************************************************)
(* The token a request carries, checked under SpecGateway.                 *)
(***************************************************************************)
\* the step takes account a to lines 127-133: the header is built from the
\* global authorization and the request is sent
BuildsHeader(a) ==
    \/ pc[a] = "sleep" /\ pc'[a] \notin {"sleep", "cancelled"}
    \/ pc[a] \in {"created", "wait_lock", "exchange"} /\ pc'[a] = "request"

\* the global authorization as the step reads it at line 132: a resumed
\* sleeper reads what the other calls left, a call coming out of the lock
\* block reads what the block has just stored
AuthorizationRead(a) ==
    IF pc[a] = "sleep" THEN authorization ELSE authorization'

\* C18 as stated: whenever a call builds its Authorization header the shared
\* authorization is present, also for a call resumed from a saturation wait
\* during which other calls invalidated or refreshed the token.
C18_AuthorizationPresent ==
    [][\A a \in Accounts :
           BuildsHeader(a) => AuthorizationRead(a) # None]_vars

\* C19 as stated: the token a request carries is not expired by the
\* 20-second policy at the moment the request is sent, also when the call
\* slept on a saturated window between obtaining the token and sending.
C19_SentTokenNotExpiring ==
    [][\A a \in Accounts :
           (BuildsHeader(a) /\ sent_token'[a] # None)
               => ~is_expired(sent_token'[a][1], now)]_vars

\* C20 as stated: the window a resumed call discards at line 121 is the
\* saturated window it waited on, never a window another call has created
\* in the meantime and whose period is still running.
C20_DiscardsObservedWindow ==
    [][\A a \in Accounts :
           (/\ pc[a] = "sleep"
            /\ pc'[a] \notin {"sleep", "cancelled"}
            /\ rate_limit_tracker # None)
               => rate_limit_tracker[1].period_start + period_length
                      = wake_at[a]]_vars

(***************************************************************************)
(* The end of the run, checked under SpecAllOk.                            *)
(***************************************************************************)
\* C13 as stated, the part on runs in which every request returns 2xx: the
\* run does not end with a surfaced error.
C13_AllOkNoError == main_pc # "failed"

====
